---- MODULE Spec2Model ----
(***************************************************************************)
(* A model of pdfplucker's batch orchestration (src/pdfplucker/processor.py *)
(* and core.py): process_batch enumerates the PDFs of a source directory,  *)
(* dispatches them in chunks to a process pool whose workers run           *)
(* process_with_timeout (one isolated child process per job, joined with a *)
(* timeout), records every completed future in the metrics dictionary,     *)
(* writes intermediate_metrics.json between chunks and final_metrics.json  *)
(* at the end.                                                             *)
(*                                                                         *)
(* File names are sequences of their dot-separated components:             *)
(* "a.b.pdf" is <<"a", "b", "pdf">>, the directory "images" is             *)
(* <<"images">>.  Rates are exact fractions [num, den] standing for        *)
(* num / den * 100.                                                        *)
(***************************************************************************)
EXTENDS Integers, Sequences, FiniteSets, TLC

\* ---------------------------------------------------------------- bounds
\* Largest number of PDFs in a freely chosen source directory.
MaxJobs == 3
\* Largest requested worker count of a freely chosen call.
MaxWorkers == 2
\* Largest worker count a call of the library entry point asks for when the
\* sizing of the pool is examined on its own.
MaxRequested == 16
\* Largest available memory, in whole GB, sampled when the sizing of the pool
\* is examined on its own.
MaxGb == 9
\* Largest number of create_converter calls between two clears of the cache,
\* and of converters constructed, when the cache is examined on its own.
MaxCalls == 3
\* Largest configured timeout, in seconds, and largest file size, in half
\* megabytes, when the adjustment of the timeout is examined on its own.
MaxTimeout == 130
MaxHalfMb == 45
\* Largest amount a call asks for when the limit on the number of files is
\* examined.
MaxAmount == 4

\* ------------------------------------------------------------ file names
\* str.lower() on one component (the components the model uses).
Lower(c) == IF c \in {"PDF", "Pdf"} THEN "pdf" ELSE IF c = "JSON" THEN "json" ELSE c

\* name.endswith("." + ext): case-sensitive.
endswith(name, ext) == Len(name) >= 2 /\ name[Len(name)] = ext

\* file.lower().endswith('.pdf')
is_pdf(name) == Len(name) >= 2 /\ Lower(name[Len(name)]) = "pdf"

\* All components of name but the last.
Front(name) == SubSeq(name, 1, Len(name) - 1)

\* os.path.splitext(name)[0]: the last dot starts an extension unless only
\* dots precede it.
splitext0(name) ==
    IF Len(name) >= 2 /\ (\E k \in 1..(Len(name) - 1) : name[k] # "")
    THEN Front(name) ELSE name

\* pathlib.Path(name).stem: the last dot starts a suffix when it is neither
\* the first nor the last character of the name.
stem(name) ==
    IF /\ Len(name) >= 2
       /\ ~(Len(name) = 2 /\ name[1] = "")
       /\ name[Len(name)] # ""
    THEN Front(name) ELSE name

\* ------------------------------------------------------------- the inputs
\* What a file makes its job do.
\*   ok            the child converts the file, writes the JSON, reports True
\*   throw         the converter raises inside process_pdf, which reports False
\*   hang          the child never finishes: join(timeout) expires
\*   crash         the child dies without putting a result on the queue
\*   raise         process_with_timeout itself raises (the future raises)
\*   raiseTimeout  the future raises TimeoutError
Kinds == {"ok", "throw", "hang", "crash", "raise", "raiseTimeout"}

\* What a file makes its job do once process_pdf has opened the JSON for
\* writing, the last thing it does.
\*   throwWriting  json.dump raises into the open file; process_pdf reports False
\*   hangWriting   the child is still writing the JSON when join(timeout) expires
WriteKinds == {"throwWriting", "hangWriting"}

\* The files a freely chosen source directory is filled from, in this order.
FilePool ==
    << [name |-> <<"a", "pdf">>, size |-> 30],
       [name |-> <<"b", "PDF">>, size |-> 10],
       [name |-> <<"final_metrics", "pdf">>, size |-> 20],
       [name |-> <<"a", "PDF">>, size |-> 40],
       [name |-> <<"c", "pdf">>, size |-> 50] >>

\* A file of the source directory that is no PDF.
Notes == [name |-> <<"notes", "txt">>, size |-> 5]

GeneralDirs == { {FilePool[k] : k \in 1..n} \cup {Notes} : n \in 0..MaxJobs }

\* The concrete scenario of the specification: 10 input files, 4 workers,
\* 2 files that exceed the timeout and 1 that throws in the converter.
ScenarioStems == << "s01", "s02", "s03", "s04", "s05", "s06", "s07", "s08", "s09", "s10" >>
ScenarioDir == { [name |-> <<ScenarioStems[k], "pdf">>, size |-> k] : k \in 1..10 } \cup {Notes}
ScenarioKind ==
    [n \in {f.name : f \in ScenarioDir \ {Notes}} |->
        IF n \in {<<"s02", "pdf">>, <<"s09", "pdf">>} THEN "hang"
        ELSE IF n = <<"s05", "pdf">> THEN "throw" ELSE "ok"]

\* Memory as process_batch samples it: available memory in whole GB, and
\* whether LOW_MEMORY=1 is set or memory use is above 80%.
MemoryStates ==
    { [gb |-> 1, low |-> TRUE], [gb |-> 16, low |-> FALSE], [gb |-> 16, low |-> TRUE] }

\* Every memory sample of the sizing on its own: available memory from none
\* to MaxGb whole GB, with and without LOW_MEMORY=1 or memory use above 80%.
MemorySamples == { [gb |-> g, low |-> l] : g \in 0..MaxGb, l \in BOOLEAN }

\* The worker counts pdfplucker() is called with: it hands its workers
\* argument to process_batch as it is, 0 included.
RequestedValues == 0..MaxRequested

\* ------------------------------------------------------------------ rates
Rate(n, d) == [num |-> n, den |-> d]
ZeroRate == Rate(0, 1)
RateEq(r, s) == r.num * s.den = s.num * r.den
RateInRange(r) == r.den > 0 /\ 0 <= r.num /\ r.num <= r.den

VARIABLES
    source,            \* the source directory: a set of [name, size]
    kind,              \* name of a PDF of source -> what its job does
    separate_folders,  \* the folder-separation flag of the calls
    requested,         \* the max_workers argument of the calls
    source_is_file,    \* whether pdfplucker() is given a single file as its source
    amount,            \* the amount argument of pdfplucker()
    timeout,           \* the timeout argument of the calls, in seconds
    args,              \* the command line of main(): whether it has arguments, whether
                       \* they pass the checks of validate_args before the device, the device
    cuda_available,    \* torch.cuda.is_available(): "yes", "no" or "raises"
    converter_fault,   \* whether DocumentConverter(...) raises in create_converter
    outdir,            \* the names in the output directory
    rerun,             \* FALSE until process_batch has been called once
    pc,                \* where process_batch is
    max_workers,       \* the effective worker count of the current call
    warned,            \* whether the current call has logged a worker-count warning
    pdf_files,         \* the enumerated jobs, in dispatch order
    i,                 \* start index of the current chunk
    metrics,           \* the metrics dictionary
    jpc,               \* job -> where its future is
    child,             \* job -> its isolated child process
    queue,             \* job -> the multiprocessing.Queue of its runner
    future,            \* job -> what its future holds
    intermediate_file, \* what this call wrote to intermediate_metrics.json: <<>> or <<content>>
    final_file,        \* what this call wrote to final_metrics.json: <<>> or <<content>>
    completed,         \* names of the PDFs whose job has written its JSON
    _converter_cache,  \* the module's converter cache: cache key -> converter
    built,             \* how many converters the process has constructed
    handle,            \* what the last call of create_converter returned: <<>> or <<converter>>
    calls,             \* the calls of create_converter since the cache was last cleared
    adjusted_timeout,  \* the timeout process_with_timeout joins its child with: <<>> or <<seconds>>
    device,            \* args.device once validate_args has accepted the arguments: <<>> or <<device>>
    printed,           \* what main() and validate_args have printed
    exit_code,         \* the exit code of main(): <<>> or <<code>>
    pressure,          \* the chunk starts at which the loop of process_batch finds memory
                       \* use above 75%
    LOW_MEMORY,        \* whether os.environ['LOW_MEMORY'] is '1'
    sampled,           \* the memory sample of the last sizing of the pool: <<>> or <<sample>>
    paused,            \* the chunk starts before which this call reclaimed memory and slept
    pdf                \* the last call of process_pdf on its own: <<>> or <<the call>>

vars == << source, kind, separate_folders, requested, source_is_file, amount, outdir, rerun, pc, max_workers,
           warned, pdf_files, i, metrics, jpc, child, queue, future, intermediate_file,
           final_file, completed, _converter_cache, built, handle, calls,
           timeout, adjusted_timeout, args, cuda_available, converter_fault, device,
           printed, exit_code, pressure, LOW_MEMORY, sampled, paused, pdf >>

memory_state == << LOW_MEMORY, sampled, paused, pdf >>

cli_state == << device, printed, exit_code >>

converter_state == << _converter_cache, built, handle, calls >>

inputs == << source, kind, separate_folders, requested, source_is_file, amount, timeout,
            args, cuda_available, converter_fault, pressure >>

Jobs == 1..Len(pdf_files)

\* ------------------------------------------------------------ enumeration
\* get_skip_files(output_dir)
get_skip_files(dir) == { splitext0(n) : n \in { m \in dir : endswith(m, "json") } }

\* The files process_batch keeps from os.listdir(source).
eligible(dir, skip_files) ==
    { f \in dir : is_pdf(f.name) /\ ~(skip_files # {} /\ stem(f.name) \in skip_files) }

\* sorted_by_size without the sort: the files in any order os.listdir gives.
listdir_order(S) ==
    { f \in [ 1..Cardinality(S) -> S ] : \A x, y \in 1..Cardinality(S) : x # y => f[x] # f[y] }

\* file_info.sort(key=size): every order of S that ascends in size.
RECURSIVE sorted_by_size(_)
sorted_by_size(S) ==
    IF S = {} THEN { <<>> }
    ELSE UNION { { <<f>> \o t : t \in sorted_by_size(S \ {f}) } :
                 f \in { g \in S : \A h \in S : g.size <= h.size } }

Max(a, b) == IF a >= b THEN a ELSE b
Min(a, b) == IF a <= b THEN a ELSE b

\* The worker count after the memory adjustments of process_batch.
effective_workers(req, gb, low) ==
    IF gb < 8 THEN Max(1, Min(req, gb))
    ELSE IF (low \/ gb < 4) /\ req > 2 THEN Max(1, req \div 2)
    ELSE req

\* low_memory_mode of a process_batch that reads LOW_MEMORY and never sets it.
low_memory_mode_unset(gb, low) == FALSE

\* low_memory_mode of process_batch, which it writes to LOW_MEMORY: low is
\* whether LOW_MEMORY=1 is set or memory use is above 80%.
low_memory_mode(gb, low) == low \/ gb < 4

\* warns without the logger.warning of the branch that limits the workers
\* to the available memory.
warns_when_halved(req, gb, low) == gb >= 8 /\ (low \/ gb < 4) /\ req > 2

\* Whether the memory adjustments log a warning: both branches do, whether
\* or not the count changes.
warns(req, gb, low) == gb < 8 \/ ((low \/ gb < 4) /\ req > 2)

batch_size == Max(1, max_workers * 2)

\* Chunk with slices that overlap by one file: pdf_files[i-1:i+batch_size].
Chunk_overlapping == { j \in Jobs : i <= j /\ j <= i + batch_size }

\* The jobs of the chunk that starts at index i.
Chunk == { j \in Jobs : i < j /\ j <= i + batch_size }

\* The amount pdfplucker() hands to process_batch: amount if amount > 0
\* else None.
batch_amount(a) ==
    IF a > 0 THEN [given |-> TRUE, value |-> a] ELSE [given |-> FALSE, value |-> 0]

\* truncate that keeps one file more than asked for.
truncate_inclusive(files, amt) ==
    IF amt.given /\ amt.value > 0
    THEN SubSeq(files, 1, Min(amt.value + 1, Len(files)))
    ELSE files

\* pdf_files[:amount] if amount is not None and amount > 0.
truncate(files, amt) ==
    IF amt.given /\ amt.value > 0
    THEN SubSeq(files, 1, Min(amt.value, Len(files)))
    ELSE files

NewMetrics(total) ==
    [ total_docs |-> total, processed_docs |-> 0, failed_docs |-> 0,
      timeout_docs |-> 0, success_rate |-> ZeroRate, fails |-> <<>> ]

\* ------------------------------------------------------------------- Init
InitGeneral ==
    /\ source \in GeneralDirs
    /\ kind \in [ { f.name : f \in { g \in source : is_pdf(g.name) } } -> Kinds ]
    /\ separate_folders \in BOOLEAN
    /\ requested \in 1..MaxWorkers

InitScenario ==
    /\ source = ScenarioDir
    /\ kind = ScenarioKind
    /\ separate_folders = FALSE
    /\ requested = 4

\* A command line that validate_args accepts, with the default device, where
\* the converter can be constructed.
DefaultCli ==
    /\ args = [given |-> TRUE, valid |-> TRUE, device |-> "AUTO"]
    /\ cuda_available = "yes"
    /\ converter_fault = FALSE

\* A process started without LOW_MEMORY in its environment, whose chunk loop
\* never finds memory use above 75%.
Calm ==
    /\ pressure = {}
    /\ LOW_MEMORY = FALSE

\* The default of the timeout argument.
DefaultTimeout == 600

\* pdfplucker() on a directory, with the default amount and timeout.
DefaultCall ==
    /\ source_is_file = FALSE
    /\ amount = 0
    /\ timeout = DefaultTimeout
    /\ Calm
    /\ DefaultCli

\* The state before the first call.
InitState ==
    /\ outdir = {}
    /\ rerun = FALSE
    /\ pc = "idle"
    /\ max_workers = requested
    /\ warned = FALSE
    /\ pdf_files = <<>>
    /\ i = 0
    /\ metrics = NewMetrics(0)
    /\ jpc = <<>>
    /\ child = <<>>
    /\ queue = <<>>
    /\ future = <<>>
    /\ intermediate_file = <<>>
    /\ final_file = <<>>
    /\ completed = {}
    /\ _converter_cache = << >>
    /\ built = 0
    /\ handle = << >>
    /\ calls = << >>
    /\ adjusted_timeout = << >>
    /\ device = << >>
    /\ printed = {}
    /\ exit_code = << >>
    /\ sampled = << >>
    /\ paused = {}
    /\ pdf = << >>

InitRest == DefaultCall /\ InitState

Init == (InitGeneral \/ InitScenario) /\ InitRest


\* ------------------------------------------------- process_batch: set-up
\* The call up to the creation of the metrics: the worker count, the output
\* directories, the skip set read from the output directory, the enumeration.
\* The low flag of its memory sample stands for LOW_MEMORY=1 as well; what the
\* call writes to the environment is followed by size_pool.
process_batch_setup ==
    /\ pc \in {"idle", "returned"}
    \* A later call starts after the children of the previous one are gone.
    /\ \A j \in Jobs : child[j] # "killing"
    /\ rerun' = (pc = "returned")
    /\ \E mem \in MemoryStates :
           /\ max_workers' = effective_workers(requested, mem.gb, mem.low)
           /\ warned' = warns(requested, mem.gb, mem.low)
    /\ paused' = {}
    /\ outdir' = outdir \cup (IF separate_folders THEN {} ELSE { <<"images">> })
    /\ \E listed \in sorted_by_size(eligible(source, get_skip_files(outdir))) :
         LET files == truncate(listed, batch_amount(amount)) IN
           /\ pdf_files' = [ j \in 1..Len(files) |-> files[j].name ]
           /\ metrics' = NewMetrics(Len(files))
           /\ jpc' = [ j \in 1..Len(files) |-> "unsubmitted" ]
           /\ child' = [ j \in 1..Len(files) |-> "none" ]
           /\ queue' = [ j \in 1..Len(files) |-> "empty" ]
           /\ future' = [ j \in 1..Len(files) |-> "none" ]
           /\ pc' = IF Len(files) = 0 THEN "conclude" ELSE "submit"
    /\ i' = 0
    /\ intermediate_file' = <<>>
    /\ final_file' = <<>>
    /\ UNCHANGED << inputs, LOW_MEMORY, sampled, pdf, converter_state, adjusted_timeout, cli_state, completed >>

\* pauses of a loop without the memory check at its head.
pauses_never(start, high) == FALSE

\* Whether the loop runs force_gc() and time.sleep(5) before the chunk that
\* starts at index start, high being whether it finds memory use above 75%.
pauses(start, high) == start > 0 /\ high

\* The head of the loop body, then executor.submit for every file of the
\* chunk.
submit_chunk ==
    /\ pc = "submit"
    /\ paused' = IF pauses(i, i \in pressure) THEN paused \cup {i} ELSE paused
    /\ jpc' = [ j \in Jobs |-> IF j \in Chunk THEN "queued" ELSE jpc[j] ]
    /\ pc' = "collect"
    /\ UNCHANGED << inputs, LOW_MEMORY, sampled, pdf, converter_state, adjusted_timeout, cli_state, outdir, rerun, max_workers, warned, pdf_files, i, metrics, child,
                    queue, future, intermediate_file, final_file, completed >>

\* ------------------------------------------------- process_with_timeout
\* Busy with runners that give their pool worker back when the deadline
\* expires, before the grace period is over.
Busy_until_deadline == { j \in Jobs : jpc[j] = "join" }

\* Pool workers that are inside process_with_timeout.
Busy == { j \in Jobs : jpc[j] \in {"join", "grace"} }

\* A free pool worker takes the next work item and runs process_with_timeout
\* up to process.start() and process.join(timeout); a call that raises ends
\* the future with the exception.
worker_start(j) ==
    /\ jpc[j] = "queued"
    /\ \A k \in Jobs : jpc[k] = "queued" => j <= k
    /\ Cardinality(Busy) < max_workers
    /\ IF kind[pdf_files[j]] = "raise"
       THEN /\ future' = [future EXCEPT ![j] = "Exception"]
            /\ jpc' = [jpc EXCEPT ![j] = "done"]
            /\ UNCHANGED child
       ELSE IF kind[pdf_files[j]] = "raiseTimeout"
       THEN /\ future' = [future EXCEPT ![j] = "TimeoutError"]
            /\ jpc' = [jpc EXCEPT ![j] = "done"]
            /\ UNCHANGED child
       ELSE /\ child' = [child EXCEPT ![j] = "running"]
            /\ jpc' = [jpc EXCEPT ![j] = "join"]
            /\ UNCHANGED future
    /\ UNCHANGED << inputs, memory_state, converter_state, adjusted_timeout, cli_state, outdir, rerun, pc, max_workers, warned, pdf_files, i, metrics,
                    queue, intermediate_file, final_file, completed >>

\* What process_pdf leaves in the output directory for a file, given whether
\* it got as far as open(result, 'w').
\* Folder separation: the file's own folder, made before the conversion, with
\* the JSON inside it; otherwise the JSON in the output directory itself.
job_folder(name) == { splitext0(name) }
job_json(name) == { splitext0(name) \o <<"json">> }

\* The paths process_pdf writes for a file, as sequences of path components
\* below the output directory: output/<base>.json, or with folder separation
\* output/<base>/<base>.json.
json_path(name) ==
    IF separate_folders THEN << splitext0(name), splitext0(name) \o <<"json">> >>
    ELSE << splitext0(name) \o <<"json">> >>

\* result.replace('.json', '.md')
md_path(name) ==
    IF separate_folders THEN << splitext0(name), splitext0(name) \o <<"md">> >>
    ELSE << splitext0(name) \o <<"md">> >>

\* The images of a file are <image folder>/<base>_<counter>.png: the folder
\* and the prefix of the names.
image_paths(name) ==
    [ folder |-> IF separate_folders THEN << splitext0(name), <<"images">> >>
                 ELSE << <<"images">> >>,
      prefix |-> splitext0(name) ]

process_pdf_output(name, opened) ==
    IF separate_folders THEN job_folder(name)
    ELSE IF opened THEN job_json(name) ELSE {}

\* worker_puts of a _worker without the memory check at its head: the file
\* is converted.
worker_puts_unchecked(k) ==
    CASE k \in {"ok", "nomemory"} -> "True"
      [] k \in {"throw", "throwWriting"} -> "False"
      [] OTHER -> "empty"

\* What _worker puts on the queue: "True" is (True, None), "False" is
\* (False, None) or (False, str(e)), "Insufficient memory" is
\* (False, "Insufficient memory"), put when the child finds memory use above
\* 90% as it starts.
worker_puts(k) ==
    CASE k = "ok" -> "True"
      [] k \in {"throw", "throwWriting"} -> "False"
      [] k = "nomemory" -> "Insufficient memory"
      [] OTHER -> "empty"

\* _worker: the child runs process_pdf, unless it finds too little memory,
\* puts its result on the queue and exits; a crashing child exits with nothing
\* on the queue.
_worker(j) ==
    /\ jpc[j] = "join"
    /\ child[j] = "running"
    /\ kind[pdf_files[j]] \in {"ok", "throw", "crash", "throwWriting", "nomemory"}
    /\ child' = [child EXCEPT ![j] = "exited"]
    /\ queue' = [queue EXCEPT ![j] = worker_puts(kind[pdf_files[j]])]
    /\ outdir' = IF kind[pdf_files[j]] = "nomemory" THEN outdir
                  ELSE outdir \cup process_pdf_output(pdf_files[j],
                                  kind[pdf_files[j]] \in {"ok", "throwWriting"})
    /\ completed' = IF kind[pdf_files[j]] = "ok" THEN completed \cup {pdf_files[j]}
                    ELSE completed
    /\ UNCHANGED << inputs, memory_state, converter_state, adjusted_timeout, cli_state, rerun, pc, max_workers, warned, pdf_files, i, metrics, jpc, future,
                    intermediate_file, final_file >>

\* success of success, error = queue.get().
success(q) == IF q = "True" THEN "True" ELSE "False"

\* queue_result that takes the silence of an exited child for a success.
queue_result_silent_success(q) == IF q # "empty" THEN success(q) ELSE "True"

\* The value process_with_timeout returns once the child has exited by itself.
queue_result(q) == IF q # "empty" THEN success(q) ELSE "False"

\* join(timeout) returns because the child exited: read the queue, return.
join_returns(j) ==
    /\ jpc[j] = "join"
    /\ child[j] = "exited"
    /\ future' = [future EXCEPT ![j] = queue_result(queue[j])]
    /\ queue' = [queue EXCEPT ![j] = "empty"]
    /\ jpc' = [jpc EXCEPT ![j] = "done"]
    /\ UNCHANGED << inputs, memory_state, converter_state, adjusted_timeout, cli_state, outdir, rerun, pc, max_workers, warned, pdf_files, i, metrics, child,
                    intermediate_file, final_file, completed >>

\* join(timeout) expires with the child alive: process.terminate(), then
\* process.join(2).
deadline_expires(j) ==
    /\ jpc[j] = "join"
    /\ child[j] = "running"
    /\ kind[pdf_files[j]] \in {"hang", "hangWriting"}
    /\ jpc' = [jpc EXCEPT ![j] = "grace"]
    /\ outdir' = outdir \cup process_pdf_output(pdf_files[j],
                                  kind[pdf_files[j]] = "hangWriting")
    /\ UNCHANGED << inputs, memory_state, converter_state, adjusted_timeout, cli_state, rerun, pc, max_workers, warned, pdf_files, i, metrics, child, queue,
                    future, intermediate_file, final_file, completed >>

\* What process_with_timeout returns on the timeout path.
timeout_result == "False"

\* after_grace without the process.kill() of a child that is still alive.
after_grace_no_kill(alive) == IF alive THEN "running" ELSE "exited"

\* The child after join(2): dead of the terminate, or still alive and sent
\* process.kill().
after_grace(alive) == IF alive THEN "killing" ELSE "exited"

\* join(2) returns; process_with_timeout returns without a further join.
grace_ends(j) ==
    /\ jpc[j] = "grace"
    /\ \E alive \in BOOLEAN : child' = [child EXCEPT ![j] = after_grace(alive)]
    /\ future' = [future EXCEPT ![j] = timeout_result]
    /\ jpc' = [jpc EXCEPT ![j] = "done"]
    /\ UNCHANGED << inputs, memory_state, converter_state, adjusted_timeout, cli_state, outdir, rerun, pc, max_workers, warned, pdf_files, i, metrics, queue,
                    intermediate_file, final_file, completed >>

\* The operating system ends a child that was sent SIGKILL.
child_killed(j) ==
    /\ child[j] = "killing"
    /\ child' = [child EXCEPT ![j] = "exited"]
    /\ UNCHANGED << inputs, memory_state, converter_state, adjusted_timeout, cli_state, outdir, rerun, pc, max_workers, warned, pdf_files, i, metrics, jpc,
                    queue, future, intermediate_file, final_file, completed >>

\* --------------------------------------------- process_batch: the results
Fail(name, error) == [file |-> name, error |-> error]

\* record_result with a loop body that drops a raised future recorded before
\* any document was processed.
record_result_first_dropped(m, name, res) ==
    CASE res = "True" ->
           [m EXCEPT !.processed_docs = @ + 1]
      [] res = "False" ->
           [m EXCEPT !.processed_docs = @ + 1, !.failed_docs = @ + 1,
                     !.fails = Append(@, Fail(name, "unknown"))]
      [] res = "TimeoutError" ->
           [m EXCEPT !.timeout_docs = @ + 1,
                     !.fails = Append(@, Fail(name, "Timeout reached"))]
      [] OTHER ->
           IF m.processed_docs = 0 THEN m
           ELSE [m EXCEPT !.failed_docs = @ + 1,
                          !.fails = Append(@, Fail(name, "exception"))]

\* record_result with an except TimeoutError clause that counts the timeout
\* and appends nothing to fails.
record_result_timeout_unlisted(m, name, res) ==
    CASE res = "True" ->
           [m EXCEPT !.processed_docs = @ + 1]
      [] res = "False" ->
           [m EXCEPT !.processed_docs = @ + 1, !.failed_docs = @ + 1,
                     !.fails = Append(@, Fail(name, "unknown"))]
      [] res = "TimeoutError" ->
           [m EXCEPT !.timeout_docs = @ + 1]
      [] OTHER ->
           [m EXCEPT !.failed_docs = @ + 1,
                     !.fails = Append(@, Fail(name, "exception"))]

\* The body of the as_completed loop for one future.
record_result(m, name, res) ==
    CASE res = "True" ->
           [m EXCEPT !.processed_docs = @ + 1]
      [] res = "False" ->
           [m EXCEPT !.processed_docs = @ + 1, !.failed_docs = @ + 1,
                     !.fails = Append(@, Fail(name, "unknown"))]
      [] res = "TimeoutError" ->
           [m EXCEPT !.timeout_docs = @ + 1,
                     !.fails = Append(@, Fail(name, "Timeout reached"))]
      [] OTHER ->
           [m EXCEPT !.failed_docs = @ + 1,
                     !.fails = Append(@, Fail(name, "exception"))]

\* propagates with a loop body that has the except TimeoutError clause only.
propagates_exceptions(res) == res \notin {"True", "False", "TimeoutError"}

\* Whether what future.result() gives leaves the loop body as an exception:
\* a returned value does not, and the clauses except TimeoutError and
\* except Exception catch what a future raises.
propagates(res) == res \notin {"True", "False", "TimeoutError", "Exception"}

\* as_completed yields a finished future of the chunk and the loop body runs;
\* an exception the body does not catch ends process_batch.
record(j) ==
    /\ pc = "collect"
    /\ jpc[j] = "done"
    /\ IF propagates(future[j])
       THEN /\ pc' = "raised"
            /\ UNCHANGED << metrics, jpc >>
       ELSE /\ metrics' = record_result(metrics, pdf_files[j], future[j])
            /\ jpc' = [jpc EXCEPT ![j] = "recorded"]
            /\ pc' = pc
    /\ UNCHANGED << inputs, memory_state, converter_state, adjusted_timeout, cli_state, outdir, rerun, max_workers, warned, pdf_files, i, child, queue,
                    future, intermediate_file, final_file, completed >>

\* intermediate_rate dividing by total_docs instead of processed_docs.
intermediate_rate_over_total(m) ==
    IF m.processed_docs > 0
    THEN Rate(m.processed_docs - m.failed_docs - m.timeout_docs, m.total_docs)
    ELSE ZeroRate

\* success_rate of an intermediate snapshot.
intermediate_rate(m) ==
    IF m.processed_docs > 0
    THEN Rate(m.processed_docs - m.failed_docs - m.timeout_docs, m.processed_docs)
    ELSE ZeroRate

\* saves_intermediate that also skips the snapshot before the last chunk.
saves_intermediate_late(k, size, total) == k + size + size < total

\* Whether the end of the chunk at index k writes intermediate_metrics.json.
saves_intermediate(k, size, total) == k + size < total

\* chunk_collected with a loop that stops at the first future that is no
\* success.
chunk_collected_until_failure ==
    \/ \A j \in Chunk : jpc[j] = "recorded"
    \/ \E j \in Chunk : jpc[j] = "recorded" /\ future[j] # "True"

\* The as_completed loop has yielded every future of the chunk and the pool
\* has shut down.
chunk_collected == \A j \in Chunk : jpc[j] = "recorded"

\* The chunk's pool has shut down: write the intermediate snapshot when more
\* chunks follow, and go to the next chunk.
end_chunk ==
    /\ pc = "collect"
    /\ chunk_collected
    /\ IF saves_intermediate(i, batch_size, Len(pdf_files))
       THEN /\ intermediate_file' =
                   << [metrics EXCEPT !.success_rate = intermediate_rate(metrics)] >>
            /\ outdir' = outdir \cup { <<"intermediate_metrics", "json">> }
       ELSE UNCHANGED << intermediate_file, outdir >>
    /\ i' = i + batch_size
    /\ pc' = IF i + batch_size < Len(pdf_files) THEN "submit" ELSE "conclude"
    /\ UNCHANGED << inputs, memory_state, converter_state, adjusted_timeout, cli_state, rerun, max_workers, warned, pdf_files, metrics, jpc, child, queue,
                    future, final_file, completed >>

\* final_rate without the guard on total_docs.
final_rate_unguarded(m) ==
    Rate(m.total_docs - m.failed_docs - m.timeout_docs, m.total_docs)

\* success_rate of the final metrics.
final_rate(m) ==
    IF m.total_docs > 0
    THEN Rate(m.total_docs - m.failed_docs - m.timeout_docs, m.total_docs)
    ELSE ZeroRate

\* Conclude the metrics, write final_metrics.json, return the metrics; a
\* division by zero in the rate raises ZeroDivisionError out of process_batch.
conclude ==
    /\ pc = "conclude"
    /\ IF final_rate(metrics).den = 0
       THEN /\ pc' = "raised"
            /\ UNCHANGED << metrics, final_file, outdir >>
       ELSE /\ metrics' = [metrics EXCEPT !.success_rate = final_rate(metrics)]
            /\ final_file' = << metrics' >>
            /\ outdir' = outdir \cup { <<"final_metrics", "json">> }
            /\ pc' = "returned"
    /\ UNCHANGED << inputs, memory_state, converter_state, adjusted_timeout, cli_state, rerun, max_workers, warned, pdf_files, i, jpc, child, queue, future,
                    intermediate_file, completed >>

Next ==
    \/ process_batch_setup
    \/ submit_chunk
    \/ \E j \in Jobs : worker_start(j)
    \/ \E j \in Jobs : _worker(j)
    \/ \E j \in Jobs : join_returns(j)
    \/ \E j \in Jobs : deadline_expires(j)
    \/ \E j \in Jobs : grace_ends(j)
    \/ \E j \in Jobs : child_killed(j)
    \/ \E j \in Jobs : record(j)
    \/ end_chunk
    \/ conclude

Spec == Init /\ [][Next]_vars

\* ------------------------------------------- the sizing of the pool alone
\* The memory adjustments of process_batch for a call of pdfplucker() with
\* any worker count, on any memory sample.
SizingInit ==
    /\ source = {Notes}
    /\ kind = [ n \in {} |-> "ok" ]
    /\ separate_folders = FALSE
    /\ requested \in RequestedValues
    /\ InitRest

size_pool ==
    /\ pc \in {"idle", "sized"}
    /\ \E mem \in MemorySamples :
           /\ LOW_MEMORY => mem.low
           /\ LOW_MEMORY' = low_memory_mode(mem.gb, mem.low)
           /\ sampled' = << mem >>
           /\ max_workers' = effective_workers(requested, mem.gb, mem.low)
           /\ warned' = warns(requested, mem.gb, mem.low)
    /\ pc' = "sized"
    /\ UNCHANGED << inputs, paused, pdf, converter_state, adjusted_timeout, cli_state, outdir, rerun, pdf_files, i, metrics, jpc, child, queue, future,
                    intermediate_file, final_file, completed >>

SizingSpec == SizingInit /\ [][size_pool]_vars

\* ------------------------------------- metrics files that cannot be written
\* open() or json.dump() of intermediate_metrics.json raises: nothing around
\* the write catches it, process_batch ends with the exception.
write_fails_intermediate ==
    /\ pc = "collect"
    /\ chunk_collected
    /\ saves_intermediate(i, batch_size, Len(pdf_files))
    /\ pc' = "raised"
    /\ \E created \in BOOLEAN :
           outdir' = IF created THEN outdir \cup { <<"intermediate_metrics", "json">> }
                     ELSE outdir
    /\ UNCHANGED << inputs, memory_state, converter_state, adjusted_timeout, cli_state, rerun, max_workers, warned, pdf_files, i, metrics, jpc, child,
                    queue, future, intermediate_file, final_file, completed >>

\* open() or json.dump() of final_metrics.json raises, after the metrics have
\* been concluded.
write_fails_final ==
    /\ pc = "conclude"
    /\ final_rate(metrics).den # 0
    /\ metrics' = [metrics EXCEPT !.success_rate = final_rate(metrics)]
    /\ pc' = "raised"
    /\ \E created \in BOOLEAN :
           outdir' = IF created THEN outdir \cup { <<"final_metrics", "json">> }
                     ELSE outdir
    /\ UNCHANGED << inputs, memory_state, converter_state, adjusted_timeout, cli_state, rerun, max_workers, warned, pdf_files, i, jpc, child, queue,
                    future, intermediate_file, final_file, completed >>

FaultNext == Next \/ write_fails_intermediate \/ write_fails_final

FaultSpec == Init /\ [][FaultNext]_vars

\* ------------------------------------------------- the operator's interrupt
\* Pool workers and children that the exit of the with block waits for.
InFlight == { j \in Jobs : jpc[j] \in {"queued", "join", "grace"} }

\* KeyboardInterrupt in the main process during a batch: no handler in
\* process_batch, the exception leaves the loop and the with block, whose exit
\* waits for the submitted jobs.  During a single-file call it leaves
\* process_pdf, which catches Exception only.
operator_interrupt ==
    /\ pc \in {"submit", "collect", "conclude", "caller_convert"}
    /\ pc' = "interrupted"
    /\ UNCHANGED << inputs, memory_state, converter_state, adjusted_timeout, cli_state, outdir, rerun, max_workers, warned, pdf_files, i, metrics, jpc,
                    child, queue, future, intermediate_file, final_file, completed >>

\* The argument of sys.exit in the except KeyboardInterrupt clause of main().
interrupt_exit == 1

\* main() catches the KeyboardInterrupt, prints and calls sys.exit(1).
main_exits ==
    /\ pc = "interrupted"
    /\ InFlight = {}
    /\ pc' = "exited"
    /\ printed' = printed \cup {"Process interrupted by user"}
    /\ exit_code' = << interrupt_exit >>
    /\ UNCHANGED << inputs, memory_state, converter_state, adjusted_timeout, device, outdir, rerun, max_workers, warned, pdf_files, i, metrics, jpc,
                    child, queue, future, intermediate_file, final_file, completed >>

InterruptNext == Next \/ operator_interrupt \/ main_exits

InterruptSpec == Init /\ [][InterruptNext]_vars


\* Time passes and the operating system delivers signals: a join with a
\* timeout returns, a child that was sent SIGKILL ends, a child that can
\* finish does, and the control flow of process_batch and of the pool goes on.
Fairness ==
    /\ WF_vars(submit_chunk)
    /\ WF_vars(end_chunk)
    /\ WF_vars(conclude)
    /\ \A j \in 1..MaxJobs :
          /\ WF_vars(j \in Jobs /\ worker_start(j))
          /\ WF_vars(j \in Jobs /\ _worker(j))
          /\ WF_vars(j \in Jobs /\ join_returns(j))
          /\ WF_vars(j \in Jobs /\ deadline_expires(j))
          /\ WF_vars(j \in Jobs /\ grace_ends(j))
          /\ WF_vars(j \in Jobs /\ child_killed(j))
          /\ WF_vars(j \in Jobs /\ record(j))

\* Batches whose files convert or hang.
InitTimeouts ==
    /\ InitGeneral
    /\ \A n \in DOMAIN kind : kind[n] \in {"ok", "hang"}
    /\ InitRest

FairSpec == InitTimeouts /\ [][Next]_vars /\ Fairness

\* One call of process_batch on a fresh output directory: files of every
\* kind, no folder separation, MaxWorkers workers requested.
InitBatch ==
    /\ InitGeneral
    /\ separate_folders = FALSE
    /\ requested = MaxWorkers
    /\ InitRest

\* The call itself.
first_call ==
    /\ pc = "idle"
    /\ process_batch_setup

\* A step of the call that is under way, by process_batch, a pool worker, a
\* child or the operating system.
run_step ==
    \/ submit_chunk
    \/ \E j \in Jobs : worker_start(j)
    \/ \E j \in Jobs : _worker(j)
    \/ \E j \in Jobs : join_returns(j)
    \/ \E j \in Jobs : deadline_expires(j)
    \/ \E j \in Jobs : grace_ends(j)
    \/ \E j \in Jobs : child_killed(j)
    \/ \E j \in Jobs : record(j)
    \/ end_chunk
    \/ conclude

\* The call under way does not stop while one of its steps is possible.
BatchFairness == WF_vars(run_step)

BatchNext == first_call \/ run_step

FairBatchSpec == InitBatch /\ [][BatchNext]_vars /\ BatchFairness

\* ------------------------------------------- jobs that fail while they write
\* Batches whose files convert, or fail or are killed after process_pdf has
\* opened their JSON.
InitWriting ==
    /\ source \in GeneralDirs
    /\ kind \in [ { f.name : f \in { g \in source : is_pdf(g.name) } } ->
                    {"ok"} \cup WriteKinds ]
    /\ separate_folders \in BOOLEAN
    /\ requested \in 1..MaxWorkers
    /\ InitRest

WritingSpec == InitWriting /\ [][Next]_vars

\* ----------------------------------------------- any choice of the files
\* Source directories with any MaxJobs or fewer files of the pool, which
\* convert or hang.
AnyDirs ==
    { S \cup {Notes} : S \in { T \in SUBSET { FilePool[k] : k \in 1..Len(FilePool) } :
                                   Cardinality(T) <= MaxJobs } }

InitAnyDir ==
    /\ source \in AnyDirs
    /\ kind \in [ { f.name : f \in { g \in source : is_pdf(g.name) } } -> {"ok", "hang"} ]
    /\ separate_folders \in BOOLEAN
    /\ requested \in 1..MaxWorkers
    /\ InitRest

AnyDirSpec == InitAnyDir /\ [][Next]_vars

\* ------------------------------------------- children that find no memory
\* Batches whose files convert or hang, or whose child finds memory use
\* above 90% when it starts.
InitStarved ==
    /\ source \in GeneralDirs
    /\ kind \in [ { f.name : f \in { g \in source : is_pdf(g.name) } } ->
                    {"ok", "hang", "nomemory"} ]
    /\ separate_folders \in BOOLEAN
    /\ requested \in 1..MaxWorkers
    /\ InitRest

StarvedSpec == InitStarved /\ [][Next]_vars

\* ------------------------------------------- memory pressure between chunks
\* The starts of chunks: every chunk holds an even number of files.
ChunkStarts == { k \in 0..(MaxJobs - 1) : k % 2 = 0 }

\* Batches whose loop finds memory use above 75% at any of the chunk starts,
\* on files that convert or hang.
InitPressure ==
    /\ source \in GeneralDirs
    /\ kind \in [ { f.name : f \in { g \in source : is_pdf(g.name) } } -> {"ok", "hang"} ]
    /\ separate_folders = FALSE
    /\ requested \in 1..MaxWorkers
    /\ source_is_file = FALSE
    /\ amount = 0
    /\ timeout = DefaultTimeout
    /\ pressure \in SUBSET ChunkStarts
    /\ LOW_MEMORY = FALSE
    /\ DefaultCli
    /\ InitState

PressureSpec == InitPressure /\ [][Next]_vars

\* ------------------------------------------- the limit on the number of files
\* Calls of pdfplucker() on a directory with every amount up to MaxAmount,
\* on files that convert or hang.
InitAmount ==
    /\ source \in GeneralDirs
    /\ kind \in [ { f.name : f \in { g \in source : is_pdf(g.name) } } -> {"ok", "hang"} ]
    /\ separate_folders \in BOOLEAN
    /\ requested = MaxWorkers
    /\ source_is_file = FALSE
    /\ amount \in 0..MaxAmount
    /\ timeout = DefaultTimeout
    /\ Calm
    /\ DefaultCli
    /\ InitState

AmountSpec == InitAmount /\ [][Next]_vars

\* ------------------------------------------------- the converter cache
\* The batch model above does not follow the converter that process_batch
\* creates before the enumeration and hands to its jobs.  create_converter and
\* its cache are modelled on their own here.
\*
\* An OCR language code is the sequence of its underscore-separated parts:
\* "es" is <<"es">>, "ch_sim" is <<"ch", "sim">>.  ocr_lang is a sequence of
\* codes.
Devices == {"CPU", "CUDA"}
ThreadCounts == {2, 4}
OcrLangs == { << <<"es">>, <<"pt">> >>, << <<"es", "pt">> >> }

ConverterArgs ==
    [ device : Devices, num_threads : ThreadCounts, ocr_lang : OcrLangs,
      force_ocr : BOOLEAN ]

\* '_'.join(ocr_lang): the parts of all the codes, in order.
RECURSIVE join(_)
join(lang) == IF lang = << >> THEN << >> ELSE Head(lang) \o join(Tail(lang))

\* str(force_ocr) in the f-string.
bool_str(b) == IF b THEN "True" ELSE "False"

\* cache_key: the underscore-separated parts of
\* f"{device}_{num_threads}_{'_'.join(ocr_lang)}_{force_ocr}".
cache_key(a) ==
    << a.device, ToString(a.num_threads) >> \o join(a.ocr_lang) \o << bool_str(a.force_ocr) >>

\* str.upper() on the device names the model uses.
Upper(d) ==
    CASE d = "cpu" -> "CPU" [] d = "cuda" -> "CUDA" [] d = "auto" -> "AUTO" [] OTHER -> d

\* The accelerator device of the pipeline options.
device_type(d) == IF Upper(d) \in {"CUDA", "CPU"} THEN Upper(d) ELSE "AUTO"

\* pipeline_threads that halves in low-memory mode whatever num_threads is.
pipeline_threads_always_halved(n, low_mem) == IF low_mem THEN Max(2, n \div 2) ELSE n

\* The thread count of the accelerator options.
pipeline_threads(n, low_mem) == IF low_mem /\ n > 2 THEN Max(2, n \div 2) ELSE n

\* images_scale, in tenths.
images_scale(low_mem) == IF low_mem THEN 3 ELSE 5

\* The DocumentConverter the function constructs: its serial number among
\* the converters of the process and its pipeline options.
DocumentConverter(serial, a, low_mem) ==
    [ serial |-> serial,
      device |-> device_type(a.device),
      num_threads |-> pipeline_threads(a.num_threads, low_mem),
      images_scale |-> images_scale(low_mem),
      page_size_limit |-> low_mem,
      ocr_lang |-> a.ocr_lang,
      force_full_page_ocr |-> a.force_ocr ]

\* Whether the call returns the cached converter: the key alone decides.
cache_hit(a, low_mem) == cache_key(a) \in DOMAIN _converter_cache

\* A call of create_converter(device, num_threads, ocr_lang, force_ocr), with
\* LOW_MEMORY=1 or memory use above 70% (low_mem) or not.
create_converter(a, low_mem) ==
    /\ pc \in {"idle", "sized"}
    /\ LOW_MEMORY => low_mem
    /\ Len(calls) < MaxCalls
    /\ (cache_hit(a, low_mem) \/ built < MaxCalls)
    /\ IF cache_hit(a, low_mem)
       THEN /\ handle' = << _converter_cache[cache_key(a)] >>
            /\ UNCHANGED << _converter_cache, built >>
       ELSE /\ built' = built + 1
            /\ handle' = << DocumentConverter(built', a, low_mem) >>
            /\ _converter_cache' =
                   [ k \in DOMAIN _converter_cache \cup { cache_key(a) } |->
                       IF k = cache_key(a) THEN handle'[1] ELSE _converter_cache[k] ]
    /\ calls' = Append(calls, [ args |-> a, low_mem |-> low_mem, returned |-> handle'[1],
                                made |-> ~cache_hit(a, low_mem) ])
    /\ UNCHANGED << inputs, memory_state, adjusted_timeout, cli_state, outdir, rerun, pc, max_workers, warned,
                    pdf_files, i, metrics, jpc, child, queue, future, intermediate_file,
                    final_file, completed >>

\* _converter_cache.clear(), as process_batch does before it concludes.
cache_clear ==
    /\ pc = "idle"
    /\ calls # << >>
    /\ _converter_cache' = << >>
    /\ calls' = << >>
    /\ UNCHANGED << inputs, memory_state, adjusted_timeout, cli_state, outdir, rerun, pc, max_workers, warned,
                    pdf_files, i, metrics, jpc, child, queue, future, intermediate_file,
                    final_file, completed, built,
                    handle >>

CacheInit ==
    /\ source = {Notes}
    /\ kind = [ n \in {} |-> "ok" ]
    /\ separate_folders = FALSE
    /\ requested = MaxWorkers
    /\ InitRest

CacheNext ==
    \/ \E a \in ConverterArgs, low_mem \in BOOLEAN : create_converter(a, low_mem)
    \/ cache_clear

CacheSpec == CacheInit /\ [][CacheNext]_vars

\* Calls of create_converter with every thread count up to MaxThreads, on one
\* device and one OCR configuration.
MaxThreads == 6

ThreadArgs ==
    [ device : {"CPU"}, num_threads : 1..MaxThreads, ocr_lang : { << <<"es">>, <<"pt">> >> },
      force_ocr : {FALSE} ]

ThreadsNext ==
    \/ \E a \in ThreadArgs, low_mem \in BOOLEAN : create_converter(a, low_mem)
    \/ cache_clear

ThreadsSpec == CacheInit /\ [][ThreadsNext]_vars

\* ------------------------------------------- the adjustment of the timeout
\* Bytes in a megabyte, as check_pdf_size counts them.
MB == 1048576

\* File sizes in bytes: every half megabyte up to MaxHalfMb, and one byte more.
SizeSamples == { (k * MB) \div 2 + d : k \in 0..MaxHalfMb, d \in {0, 1} }

Timeouts == 0..MaxTimeout

\* int(file_size_mb * 6) for file_size_mb = bytes / (1024 * 1024).
extra_seconds(bytes) == (bytes * 6) \div MB

\* file_size_mb > 10
over_10_mb(bytes) == bytes > 10 * MB

\* adjusted without the cap at twice the timeout.
adjusted_uncapped(t, bytes) ==
    IF over_10_mb(bytes) THEN t + extra_seconds(bytes) ELSE t

\* The timeout process_with_timeout joins with, for the size check_pdf_size
\* reports.
adjusted(t, bytes) ==
    IF over_10_mb(bytes) THEN Min(t * 2, t + extra_seconds(bytes)) ELSE t

\* The file of a call on a single file.
the_file == CHOOSE f \in source : TRUE

TimeoutInit ==
    /\ \E bytes \in SizeSamples : source = { [name |-> <<"a", "pdf">>, size |-> bytes] }
    /\ kind = [ n \in { <<"a", "pdf">> } |-> "ok" ]
    /\ separate_folders = FALSE
    /\ requested = MaxWorkers
    /\ source_is_file = FALSE
    /\ amount = 0
    /\ timeout \in Timeouts
    /\ Calm
    /\ DefaultCli
    /\ InitState

\* process_with_timeout up to process.join(timeout): check_pdf_size reports
\* the size of the file, or 0 when it cannot read the size.
adjust_timeout ==
    /\ pc = "idle"
    /\ \E readable \in BOOLEAN :
           adjusted_timeout' =
               << adjusted(timeout, IF readable THEN the_file.size ELSE 0) >>
    /\ pc' = "adjusted"
    /\ UNCHANGED << inputs, memory_state, converter_state, cli_state, outdir, rerun, max_workers, warned,
                    pdf_files, i,
                    metrics, jpc, child, queue, future, intermediate_file, final_file,
                    completed >>

TimeoutSpec == TimeoutInit /\ [][adjust_timeout]_vars

\* ------------------------------------------------- process_pdf on its own
\* File sizes in bytes around the limits of 50 MB and 100 MB, the available
\* memory in bytes, and page counts around the limits of 100 and 300 pages.
PdfSizes == { m * MB + d : m \in {10, 30, 50, 60, 100, 120}, d \in {0, 1} }
AvailableSamples == { m * MB : m \in {200, 550, 2000} }
PageCounts == {10, 150, 350}

\* A call of process_pdf and what it meets: the size of the file, the
\* available memory, whether check_pdf_size can read them (readable), whether
\* memory use is above 70% (high), whether fitz opens the file (opens), its
\* page count, whether the conversion used more than 200 MB (heavy), and the
\* markdown flag.
PdfCalls ==
    [ size : PdfSizes, available : AvailableSamples, readable : BOOLEAN, high : BOOLEAN,
      opens : BOOLEAN, pages : PageCounts, heavy : BOOLEAN, markdown : BOOLEAN ]

\* file_size_mb > size_threshold, for size_threshold = min(100, available
\* memory in MB / 10).
over_threshold(bytes, available) == bytes > Min(100 * MB, available \div 10)

\* check_pdf_size: (safe, size), or (False, 0) when it raises.
check_pdf_size(c) ==
    IF c.readable
    THEN [safe |-> ~over_threshold(c.size, c.available), bytes |-> c.size]
    ELSE [safe |-> FALSE, bytes |-> 0]

\* too_large without the limit of 50 MB: every file check_pdf_size does not
\* find safe is refused.
too_large_when_unsafe(chk) == ~chk.safe

\* Whether process_pdf returns False on the size check.
too_large(chk) == ~chk.safe /\ chk.bytes > 50 * MB

\* Whether the conversion result is deleted after the formatting, before the
\* markdown is saved.
released(c, low) == low \/ c.heavy

\* What a call does, in low-memory mode (low) or not: the value it returns,
\* the check that stopped it, the converter it ran, and whether it wrote the
\* JSON and the markdown.  The markdown is saved from the conversion result;
\* when that was deleted the save raises, and the error is logged only.
process_pdf_result(c, low) ==
    LET stop(at) == [returned |-> FALSE, stopped |-> at, converter |-> "none",
                     json |-> FALSE, md |-> FALSE]
    IN  IF too_large(check_pdf_size(c)) THEN stop("size")
        ELSE IF ~c.opens THEN stop("open")
        ELSE IF c.pages > 100 /\ low /\ c.pages > 300 THEN stop("pages")
        ELSE [returned |-> TRUE, stopped |-> "no",
              converter |-> IF c.pages > 100 /\ low THEN "temp_converter"
                            ELSE "doc_converter",
              json |-> TRUE,
              md |-> c.markdown /\ ~released(c, low)]

\* A call of process_pdf by the process itself, with LOW_MEMORY as it is; the
\* first such call of the process is followed.
process_pdf(c) ==
    /\ pc \in {"idle", "sized"}
    /\ pdf = << >>
    /\ pdf' = << [ call |-> c, low_memory_mode |-> (LOW_MEMORY \/ c.high),
                   out |-> process_pdf_result(c, LOW_MEMORY \/ c.high) ] >>
    /\ UNCHANGED << inputs, LOW_MEMORY, sampled, paused, converter_state, adjusted_timeout, cli_state,
                    outdir, rerun, pc, max_workers, warned, pdf_files, i, metrics, jpc, child,
                    queue, future, intermediate_file, final_file, completed >>

\* Calls of process_pdf in a process with LOW_MEMORY=1 in its environment or
\* without it.
PdfInit ==
    /\ source = {Notes}
    /\ kind = [ n \in {} |-> "ok" ]
    /\ separate_folders = FALSE
    /\ requested = MaxWorkers
    /\ source_is_file = FALSE
    /\ amount = 0
    /\ timeout = DefaultTimeout
    /\ pressure = {}
    /\ LOW_MEMORY \in BOOLEAN
    /\ DefaultCli
    /\ InitState

PdfNext == \E c \in PdfCalls : process_pdf(c)

PdfSpec == PdfInit /\ [][PdfNext]_vars

\* ------------------------------------------------- the environment
\* Calls of process_batch, as far as the sizing of its pool, of
\* create_converter and of process_pdf in one process, in any order.
EnvArgs ==
    [ device : {"CPU"}, num_threads : ThreadCounts, ocr_lang : { << <<"es">>, <<"pt">> >> },
      force_ocr : {FALSE} ]

EnvCalls ==
    [ size : {10 * MB}, available : {2000 * MB}, readable : {TRUE}, high : BOOLEAN,
      opens : {TRUE}, pages : PageCounts, heavy : {FALSE}, markdown : {FALSE} ]

EnvInit ==
    /\ source = {Notes}
    /\ kind = [ n \in {} |-> "ok" ]
    /\ separate_folders = FALSE
    /\ requested = MaxRequested
    /\ InitRest

EnvNext ==
    \/ size_pool
    \/ \E a \in EnvArgs, low_mem \in BOOLEAN : create_converter(a, low_mem)
    \/ \E c \in EnvCalls : process_pdf(c)

EnvSpec == EnvInit /\ [][EnvNext]_vars

\* ------------------------------------------- the entry paths of pdfplucker()
\* pdfplucker() on a single file, or on a directory whose files convert or
\* hang.
InitEntry ==
    /\ source_is_file \in BOOLEAN
    /\ IF source_is_file
       THEN /\ \E k \in 1..MaxJobs : source = { FilePool[k] }
            /\ kind \in [ { f.name : f \in source } -> {"ok", "throw", "hang"} ]
       ELSE /\ source \in GeneralDirs
            /\ kind \in [ { f.name : f \in { g \in source : is_pdf(g.name) } } ->
                            {"ok", "hang"} ]
    /\ separate_folders \in BOOLEAN
    /\ requested = MaxWorkers
    /\ amount = 0
    /\ timeout = DefaultTimeout
    /\ Calm
    /\ DefaultCli
    /\ InitState

\* source_path.is_file(): create the converter, make the image folder and
\* call process_pdf, which runs doc_converter.convert in the process of the
\* caller.
single_file_call ==
    /\ pc = "idle"
    /\ source_is_file
    /\ outdir' = outdir \cup (IF separate_folders THEN { stem(the_file.name) }
                              ELSE { <<"images">> })
    /\ pc' = "caller_convert"
    /\ UNCHANGED << inputs, memory_state, converter_state, adjusted_timeout, cli_state, rerun, max_workers, warned, pdf_files, i, metrics, jpc, child,
                    queue, future, intermediate_file, final_file, completed >>

\* process_pdf returns to pdfplucker(), which returns its result; a
\* conversion that hangs never returns, nothing bounds it.
single_file_returns ==
    /\ pc = "caller_convert"
    /\ kind[the_file.name] \in {"ok", "throw"}
    /\ outdir' = outdir \cup process_pdf_output(the_file.name, kind[the_file.name] = "ok")
    /\ completed' = IF kind[the_file.name] = "ok" THEN completed \cup {the_file.name}
                    ELSE completed
    /\ pc' = "returned"
    /\ UNCHANGED << inputs, memory_state, converter_state, adjusted_timeout, cli_state, rerun, max_workers, warned, pdf_files, i, metrics, jpc, child,
                    queue, future, intermediate_file, final_file >>

\* The else branch of pdfplucker(): the source is a directory.
batch_call ==
    /\ ~source_is_file
    /\ process_batch_setup

EntryNext == single_file_call \/ single_file_returns \/ batch_call \/ run_step

EntrySpec == InitEntry /\ [][EntryNext]_vars

\* ------------------------------------------------------------ the CLI
\* The argument of sys.exit after a validation error and in the except
\* Exception clause of main().
error_exit == 1

\* The devices the parser accepts that the model distinguishes.
CliDevices == {"CPU", "CUDA", "cuda"}

\* Command lines on a single file, or on a directory whose files convert or
\* hang, on machines with and without CUDA.
InitCli ==
    /\ source_is_file \in BOOLEAN
    /\ IF source_is_file
       THEN /\ \E k \in 1..MaxJobs : source = { FilePool[k] }
            /\ kind \in [ { f.name : f \in source } -> {"ok", "throw", "hang"} ]
       ELSE /\ \E k \in 1..MaxJobs : source = { FilePool[n] : n \in 1..k } \cup {Notes}
            /\ kind \in [ { f.name : f \in { g \in source : is_pdf(g.name) } } ->
                            {"ok", "hang"} ]
    /\ separate_folders = FALSE
    /\ requested = MaxWorkers
    /\ amount = 0
    /\ timeout = DefaultTimeout
    /\ Calm
    /\ args \in [ given : BOOLEAN, valid : BOOLEAN, device : CliDevices ]
    /\ cuda_available \in {"yes", "no", "raises"}
    /\ converter_fault \in BOOLEAN
    /\ InitState

\* validate_args: the checks of the source, the workers, the timeout and the
\* paths come first, then the check of the device.  For CUDA, a machine
\* without it is an error; only an availability check that raises makes the
\* function warn and set args.device to CPU.
validate_args(a, cuda) ==
    IF ~a.valid
    THEN [ ok |-> FALSE, error |-> "invalid arguments", device |-> a.device, warning |-> {} ]
    ELSE IF Upper(a.device) = "CUDA" /\ cuda = "no"
    THEN [ ok |-> FALSE, error |-> "CUDA is not available on this device",
           device |-> a.device, warning |-> {} ]
    ELSE IF Upper(a.device) = "CUDA" /\ cuda = "raises"
    THEN [ ok |-> TRUE, error |-> "", device |-> "CPU",
           warning |-> {"Falling back to CPU processing"} ]
    ELSE [ ok |-> TRUE, error |-> "", device |-> a.device, warning |-> {} ]

\* len(sys.argv) == 1: print the usage hint, sys.exit(0).
main_usage ==
    /\ pc = "idle"
    /\ ~args.given
    /\ printed' = printed \cup {"usage"}
    /\ exit_code' = << 0 >>
    /\ pc' = "exited"
    /\ UNCHANGED << inputs, memory_state, converter_state, adjusted_timeout, device, outdir, rerun,
                    max_workers, warned, pdf_files, i, metrics, jpc, child, queue, future,
                    intermediate_file, final_file, completed >>

\* validate_args returns an error: print it, sys.exit(1).
main_rejects ==
    /\ pc = "idle"
    /\ args.given
    /\ device = << >>
    /\ ~validate_args(args, cuda_available).ok
    /\ printed' = printed \cup { validate_args(args, cuda_available).error }
    /\ exit_code' = << error_exit >>
    /\ pc' = "exited"
    /\ UNCHANGED << inputs, memory_state, converter_state, adjusted_timeout, device, outdir, rerun,
                    max_workers, warned, pdf_files, i, metrics, jpc, child, queue, future,
                    intermediate_file, final_file, completed >>

\* validate_args accepts the arguments.
main_validates ==
    /\ pc = "idle"
    /\ args.given
    /\ device = << >>
    /\ validate_args(args, cuda_available).ok
    /\ device' = << validate_args(args, cuda_available).device >>
    /\ printed' = printed \cup validate_args(args, cuda_available).warning
    /\ UNCHANGED << inputs, memory_state, converter_state, adjusted_timeout, exit_code, outdir, rerun, pc,
                    max_workers, warned, pdf_files, i, metrics, jpc, child, queue, future,
                    intermediate_file, final_file, completed >>

\* main() calls pdfplucker() (for a file through process_single_file), which
\* creates the converter and starts the work.
main_calls ==
    /\ pc = "idle"
    /\ device # << >>
    /\ ~converter_fault
    /\ (single_file_call \/ batch_call)

\* DocumentConverter(...) raises in create_converter, which has no handler,
\* nor has pdfplucker().
construction_fails ==
    /\ pc = "idle"
    /\ device # << >>
    /\ converter_fault
    /\ pc' = "raised"
    /\ UNCHANGED << inputs, memory_state, converter_state, adjusted_timeout, cli_state, outdir, rerun,
                    max_workers, warned, pdf_files, i, metrics, jpc, child, queue, future,
                    intermediate_file, final_file, completed >>

\* The exit code after pdfplucker() has returned: for a file,
\* sys.exit(0 if sucess else 1); for a directory main() prints the metrics
\* and returns.
returned_exit ==
    IF source_is_file THEN (IF the_file.name \in completed THEN 0 ELSE 1) ELSE 0

main_returns ==
    /\ pc = "returned"
    /\ printed' = printed \cup (IF returned_exit = 0 THEN {"Processing completed successfully"}
                                ELSE {"Processing failed"})
    /\ exit_code' = << returned_exit >>
    /\ pc' = "exited"
    /\ UNCHANGED << inputs, memory_state, converter_state, adjusted_timeout, device, outdir, rerun,
                    max_workers, warned, pdf_files, i, metrics, jpc, child, queue, future,
                    intermediate_file, final_file, completed >>

\* except Exception: print the error and the traceback, sys.exit(1).
main_fails ==
    /\ pc = "raised"
    /\ printed' = printed \cup {"An error occurred"}
    /\ exit_code' = << error_exit >>
    /\ pc' = "exited"
    /\ UNCHANGED << inputs, memory_state, converter_state, adjusted_timeout, device, outdir, rerun,
                    max_workers, warned, pdf_files, i, metrics, jpc, child, queue, future,
                    intermediate_file, final_file, completed >>

CliNext ==
    \/ main_usage
    \/ main_rejects
    \/ main_validates
    \/ main_calls
    \/ construction_fails
    \/ run_step
    \/ single_file_returns
    \/ operator_interrupt
    \/ main_exits
    \/ main_returns
    \/ main_fails

CliSpec == InitCli /\ [][CliNext]_vars


\* ------------------------------------------------------------ properties
Recorded == { j \in Jobs : jpc[j] = "recorded" }
WithResult(v) == { j \in Jobs : jpc[j] \in {"done", "recorded"} /\ future[j] = v }
RecordedWith(v) == { j \in Recorded : future[j] = v }
SourcePdfs == { f.name : f \in { g \in source : is_pdf(g.name) } }
FailsOf(name) == { k \in 1..Len(metrics.fails) : metrics.fails[k].file = name }

\* C1: when process_batch returns, processed_docs equals the number N of
\* enumerated jobs (= total_docs), whatever the outcomes of the jobs were.
C1_ProcessedEqualsTotal ==
    pc = "returned" =>
        /\ metrics.total_docs = Len(pdf_files)
        /\ metrics.processed_docs = metrics.total_docs

\* C2: in every state, processed_docs = succeeded + failed_docs + timeout_docs,
\* succeeded being the number of recorded jobs whose result was True.
C2_ProcessedIsSum ==
    metrics.processed_docs =
        Cardinality(RecordedWith("True")) + metrics.failed_docs + metrics.timeout_docs

\* C3: a job whose child had not finished when join(timeout) expired is
\* recorded as a timeout: it counts in timeout_docs and its failure entry
\* carries the timeout error, not the error of a plain failure.
C3_TimeoutRecordedAsTimeout ==
    LET TimedOut == { j \in Recorded : kind[pdf_files[j]] = "hang" }
    IN  /\ metrics.timeout_docs >= Cardinality(TimedOut)
        /\ \A j \in TimedOut :
              /\ \E k \in FailsOf(pdf_files[j]) : metrics.fails[k].error = "Timeout reached"
              /\ \A k \in FailsOf(pdf_files[j]) : metrics.fails[k].error # "unknown"

\* C4: process_with_timeout always returns for a child that never completes
\* (the deadline, terminate, the grace period, kill, return), and that child
\* is eventually not running.
C4_HungJobReturns ==
    \A j \in 1..MaxJobs :
        (j \in Jobs /\ jpc[j] = "join" /\ kind[pdf_files[j]] = "hang")
            ~> (j \in Jobs /\ jpc[j] \in {"done", "recorded"} /\ child[j] = "exited")

\* A runner has returned failure after killing a child that survived terminate.
C4_Witness ==
    \E j \in Jobs :
        /\ kind[pdf_files[j]] = "hang"
        /\ jpc[j] = "done"
        /\ future[j] = "False"
        /\ child[j] = "killing"

\* C5: a re-run enumerates exactly the N - M PDFs of the source directory
\* that have no completed output, M being the number of completed jobs, with
\* and without folder separation and with the metrics files in the output
\* directory.
C5_ResumeSkipsCompleted ==
    (rerun /\ i = 0 /\ pc \in {"submit", "conclude"}) =>
        /\ { pdf_files[j] : j \in Jobs } = SourcePdfs \ completed
        /\ Len(pdf_files) = Cardinality(SourcePdfs) - Cardinality(completed \cap SourcePdfs)

\* C6: the final counts depend only on the multiset of the jobs' outcomes:
\* for every order in which the futures complete and are recorded they are
\* the counts of that multiset.
C6_FinalCountsFromOutcomes ==
    pc = "returned" =>
        LET t == Cardinality(WithResult("True"))
            f == Cardinality(WithResult("False"))
            x == Cardinality(WithResult("Exception"))
            o == Cardinality(WithResult("TimeoutError"))
        IN  /\ metrics.total_docs = t + f + x + o
            /\ metrics.processed_docs = t + f
            /\ metrics.failed_docs = f + x
            /\ metrics.timeout_docs = o
            /\ Len(metrics.fails) = f + x + o
            /\ RateEq(metrics.success_rate,
                      IF t + f + x + o > 0 THEN Rate(t, t + f + x + o) ELSE ZeroRate)

\* A batch has returned after recording two failures in the order opposite
\* to their dispatch, and a success.
C6_Witness ==
    /\ pc = "returned"
    /\ WithResult("True") # {}
    /\ Len(metrics.fails) >= 2
    /\ \E a, b \in Jobs :
          /\ a < b
          /\ metrics.fails[1].file = pdf_files[b]
          /\ metrics.fails[2].file = pdf_files[a]
          /\ future[a] # future[b]

\* C7: every success_rate process_batch publishes, in an intermediate
\* snapshot or in the final metrics, lies in [0, 100], and is 0 when
\* total_docs is 0 (for a snapshot: when nothing has been processed).
C7_RateInRange ==
    /\ intermediate_file # <<>> =>
          /\ RateInRange(intermediate_file[1].success_rate)
          /\ intermediate_file[1].processed_docs = 0 =>
                 intermediate_file[1].success_rate.num = 0
    /\ final_file # <<>> =>
          /\ RateInRange(final_file[1].success_rate)
          /\ final_file[1].total_docs = 0 => final_file[1].success_rate.num = 0

\* The rate (processed_docs - failed_docs - timeout_docs) / total_docs * 100 of
\* the counters of a published metrics dictionary c.
ClaimedRate(c) ==
    IF c.total_docs > 0
    THEN Rate(c.processed_docs - c.failed_docs - c.timeout_docs, c.total_docs)
    ELSE ZeroRate

\* C8, as claimed: every published success_rate equals
\* (processed_docs - failed_docs - timeout_docs) / total_docs * 100.  Stated
\* for the runs in which no future raises, where processed_docs counts every
\* recorded completion.
C8_RateOverTotal ==
    (\A j \in Jobs : future[j] \notin {"Exception", "TimeoutError"}) =>
        /\ intermediate_file # <<>> =>
              RateEq(intermediate_file[1].success_rate, ClaimedRate(intermediate_file[1]))
        /\ final_file # <<>> =>
              RateEq(final_file[1].success_rate, ClaimedRate(final_file[1]))

\* C8, amended: the success_rate of an intermediate snapshot is
\* (processed_docs - failed_docs - timeout_docs) / processed_docs * 100 (0 when
\* processed_docs is 0), that of the final metrics is
\* (total_docs - failed_docs - timeout_docs) / total_docs * 100 (0 when
\* total_docs is 0), of the counters published with it.
C8_RateAsComputed ==
    /\ intermediate_file # <<>> =>
          LET c == intermediate_file[1]
          IN  /\ c.success_rate.den > 0
              /\ IF c.processed_docs > 0
                 THEN c.success_rate.num * c.processed_docs =
                          (c.processed_docs - c.failed_docs - c.timeout_docs) * c.success_rate.den
                 ELSE c.success_rate.num = 0
    /\ final_file # <<>> =>
          LET c == final_file[1]
          IN  /\ c.success_rate.den > 0
              /\ IF c.total_docs > 0
                 THEN c.success_rate.num * c.total_docs =
                          (c.total_docs - c.failed_docs - c.timeout_docs) * c.success_rate.den
                 ELSE c.success_rate.num = 0

\* The final metrics have been published after an intermediate snapshot that
\* holds successes and failures.
C8_Witness ==
    /\ intermediate_file # <<>>
    /\ final_file # <<>>
    /\ intermediate_file[1].failed_docs > 0
    /\ intermediate_file[1].processed_docs > intermediate_file[1].failed_docs
    /\ final_file[1].failed_docs > 0

\* C9: 10 jobs, 4 workers, exactly 2 jobs that exceed the timeout and 1 that
\* raises in the converter: process_batch returns total_docs=10,
\* processed_docs=10, timeout_docs=2, failed_docs=1, success_rate=70.0 and 3
\* failure entries that name the 3 bad files.
C9_Scenario ==
    (source = ScenarioDir /\ kind = ScenarioKind /\ max_workers = 4 /\ ~rerun
        /\ pc = "returned") =>
        /\ metrics.total_docs = 10
        /\ metrics.processed_docs = 10
        /\ metrics.timeout_docs = 2
        /\ metrics.failed_docs = 1
        /\ RateEq(metrics.success_rate, Rate(70, 100))
        /\ Len(metrics.fails) = 3
        /\ { metrics.fails[k].file : k \in 1..Len(metrics.fails) } =
               { <<"s02", "pdf">>, <<"s05", "pdf">>, <<"s09", "pdf">> }

\* C10, as claimed: in a batch of at least 10 jobs, once the 5th completion
\* has been recorded a checkpoint exists whose processed_docs is 5.
C10_CheckpointAfterFive ==
    (Len(pdf_files) >= 10 /\ Cardinality(Recorded) = 5) =>
        /\ intermediate_file # <<>>
        /\ intermediate_file[1].processed_docs = 5

\* C10, amended: a checkpoint is persisted at the end of every chunk of
\* 2 x max_workers jobs that another chunk follows, and at no other moment:
\* none exists during the first chunk, and when the next chunk is about to be
\* submitted the checkpoint holds the counters and failures of all the
\* i completions recorded so far.
C10_CheckpointPerChunk ==
    /\ (pc \in {"submit", "collect"} /\ i = 0) => intermediate_file = <<>>
    /\ (pc \in {"submit", "collect"} /\ i > 0) => intermediate_file # <<>>
    /\ (pc = "submit" /\ i > 0) =>
          /\ Cardinality(Recorded) = i
          /\ i % batch_size = 0
          /\ intermediate_file[1].total_docs = Len(pdf_files)
          /\ intermediate_file[1].processed_docs = metrics.processed_docs
          /\ intermediate_file[1].failed_docs = metrics.failed_docs
          /\ intermediate_file[1].timeout_docs = metrics.timeout_docs
          /\ intermediate_file[1].fails = metrics.fails

\* The second chunk of a batch is about to be submitted.
C10_Witness ==
    /\ pc = "submit"
    /\ i > 0
    /\ intermediate_file # <<>>
    /\ Cardinality(Recorded) = batch_size

\* C11: every run of process_batch that is past its set-up eventually writes
\* final_metrics.json and returns the metrics it wrote, whatever the jobs do:
\* no success at all, no job at all, futures that raise.
C11_RunWritesFinalAndReturns ==
    (pc \in {"submit", "collect", "conclude"})
        ~> (/\ pc = "returned"
            /\ final_file = << metrics >>
            /\ <<"final_metrics", "json">> \in outdir)

\* A batch none of whose jobs succeeded, one of them by a raised future, has
\* returned with its final metrics written.
C11_Witness ==
    /\ pc = "returned"
    /\ final_file = << metrics >>
    /\ Len(pdf_files) >= 2
    /\ WithResult("True") = {}
    /\ WithResult("Exception") # {}

\* C12: a failure to write intermediate_metrics.json or final_metrics.json
\* does not abort the run: process_batch never ends by raising, it goes on to
\* the remaining chunks and returns the metrics.  Stated for the runs that
\* have recorded a job.
C12_WriteFailureDoesNotAbort == Recorded # {} => pc # "raised"

\* C13: the worker count process_batch sizes the pool with is at least 1 and
\* at most the requested count, for every requested count and every memory
\* sample.
C13_WorkersWithinRequest ==
    pc = "sized" => (1 <= max_workers /\ max_workers <= requested)

Running == { j \in Jobs : child[j] = "running" }

\* C15: at every moment of a batch run the number of isolated children that
\* run a conversion is at most the effective worker count.
C15_RunningWithinWorkers == Cardinality(Running) <= max_workers

\* As many children as workers run, two at least, while a job waits for a
\* worker and a killed child of an earlier job has not ended yet.
C15_Witness ==
    /\ max_workers >= 2
    /\ Cardinality(Running) = max_workers
    /\ \E j \in Jobs : jpc[j] = "queued"
    /\ \E j \in Jobs : child[j] = "killing"

\* What the job of a file of kind k gives when it runs alone.
OwnOutcome(k) ==
    CASE k = "ok" -> "True"
      [] k \in {"throw", "hang", "crash"} -> "False"
      [] k = "raise" -> "Exception"
      [] OTHER -> "TimeoutError"

\* C16: a timeout, failure or crash of a job neither cancels a sibling nor
\* changes its outcome: every job that has finished ran in a child of its own
\* and holds the outcome it has when it runs alone, and when the chunks are
\* over every job has been dispatched and recorded, with one failure entry
\* exactly when it did not succeed.
C16_SiblingsKeepOwnOutcome ==
    /\ \A j \in Jobs :
          jpc[j] \in {"done", "recorded"} =>
              /\ future[j] = OwnOutcome(kind[pdf_files[j]])
              /\ kind[pdf_files[j]] \notin {"raise", "raiseTimeout"} => child[j] # "none"
    /\ pc \in {"conclude", "returned"} =>
          \A j \in Jobs :
              /\ jpc[j] = "recorded"
              /\ Cardinality(FailsOf(pdf_files[j])) = IF future[j] = "True" THEN 0 ELSE 1

\* A batch with a job that timed out and a job that crashed has returned, and
\* a third job of it succeeded.
C16_Witness ==
    /\ pc = "returned"
    /\ \E a, b, c \in Jobs :
          /\ kind[pdf_files[a]] = "hang"
          /\ kind[pdf_files[b]] = "crash"
          /\ kind[pdf_files[c]] = "ok"
          /\ future[c] = "True"
          /\ FailsOf(pdf_files[c]) = {}

\* C17: after an operator interrupt during a batch no further job is
\* submitted, the jobs in flight finish or are reclaimed, and when the
\* process exits final_metrics.json holds the outcomes recorded so far.
\* Stated for the interrupts that come after a job has been recorded.
C17_InterruptPersistsFinalMetrics ==
    (pc = "exited" /\ Recorded # {}) =>
        /\ InFlight = {}
        /\ final_file # <<>>
        /\ final_file[1].processed_docs = metrics.processed_docs
        /\ final_file[1].failed_docs = metrics.failed_docs
        /\ final_file[1].timeout_docs = metrics.timeout_docs
        /\ final_file[1].fails = metrics.fails

\* C18: a child that exits before the deadline with nothing on the queue
\* makes process_with_timeout return failure, and process_batch records the
\* job as failed with a failure entry: it is never a success and never
\* missing from the metrics.
C18_SilentChildIsFailure ==
    LET Crashed == { j \in Jobs : kind[pdf_files[j]] = "crash" }
    IN  /\ \A j \in Crashed :
              /\ jpc[j] \in {"done", "recorded"} => future[j] = "False"
              /\ jpc[j] = "recorded" =>
                     /\ Cardinality(FailsOf(pdf_files[j])) = 1
                     /\ \A k \in FailsOf(pdf_files[j]) : metrics.fails[k].error = "unknown"
              /\ pc \in {"conclude", "returned"} => jpc[j] = "recorded"
        /\ metrics.failed_docs >= Cardinality(Crashed \cap Recorded)
        /\ metrics.processed_docs - metrics.failed_docs
               <= Cardinality(Recorded \ Crashed)

\* A batch has returned in which a child crashed and another job succeeded.
C18_Witness ==
    /\ pc = "returned"
    /\ \E j \in Jobs : kind[pdf_files[j]] = "crash" /\ child[j] = "exited"
    /\ RecordedWith("True") # {}

\* C19: process_with_timeout never raises for a fault of its job: every
\* future holds a returned value.
C19_RunnerNeverRaises ==
    \A j \in Jobs : jpc[j] \in {"done", "recorded"} => future[j] \in {"True", "False"}

\* C20: process_batch never raises because of a job's failure, timeout,
\* crash or raised future: once a job has ended without success the call
\* still records it and returns the metrics.
C20_JobFaultsNeverRaise ==
    /\ [](pc # "raised")
    /\ (\E j \in Jobs : jpc[j] = "done" /\ future[j] # "True")
           ~> (/\ pc = "returned"
               /\ final_file = << metrics >>
               /\ \A j \in Jobs : jpc[j] = "recorded")

\* A batch has returned whose jobs ended by a raised exception, by a raised
\* TimeoutError and by a crash of the child.
C20_Witness ==
    /\ pc = "returned"
    /\ WithResult("Exception") # {}
    /\ WithResult("TimeoutError") # {}
    /\ \E j \in Jobs : kind[pdf_files[j]] = "crash" /\ jpc[j] = "recorded"

\* The JSON files of the output directory that no job completed: a child
\* opened them and failed, or was killed, before it had written them.
LeftBehind ==
    { n \in source : /\ is_pdf(n.name)
                     /\ job_json(n.name) \subseteq outdir
                     /\ \A m \in completed : job_json(m) # job_json(n.name)
                     /\ splitext0(n.name) \notin {<<"final_metrics">>,
                                                  <<"intermediate_metrics">>} }

\* C21: a JSON file that a failed or killed job left behind is not taken for
\* a completed output: a later call enumerates the file's job again.
C21_LeftBehindIsProcessedAgain ==
    (rerun /\ pc # "idle") =>
        \A n \in LeftBehind : \E j \in Jobs : pdf_files[j] = n.name

\* C22: the jobs of one batch write pairwise distinct JSON, markdown and
\* image paths.
C22_OutputPathsDistinct ==
    \A j, k \in Jobs :
        j # k => /\ json_path(pdf_files[j]) # json_path(pdf_files[k])
                 /\ md_path(pdf_files[j]) # md_path(pdf_files[k])
                 /\ image_paths(pdf_files[j]) # image_paths(pdf_files[k])

\* C23: doc_converter.convert runs in an isolated child process only, never
\* in the process of the caller of pdfplucker(), whatever the source is.
C23_ConvertOnlyInChild == pc # "caller_convert"

\* How many times the loop body has changed the metrics: each pass counts
\* its future in processed_docs, in timeout_docs, or as an exception among
\* the fails.
Changes(m) ==
    m.processed_docs + m.timeout_docs
      + Cardinality({ k \in 1..Len(m.fails) : m.fails[k].error = "exception" })

\* A step of a call under way.
C24_Step ==
    pc \notin {"idle", "returned"} =>
        /\ \A j \in Jobs :
               /\ jpc[j] \notin {"unsubmitted", "queued"}
                     => jpc'[j] \notin {"unsubmitted", "queued"}
               /\ jpc[j] = "recorded" => jpc'[j] = "recorded"
        /\ Changes(metrics') = Cardinality(Recorded')
        /\ pc' = "returned" => Recorded' = Jobs

\* C24: every enumerated job is submitted exactly once in a call (a job that
\* has left the queue is never submitted again, a call returns with no job
\* unsubmitted) and changes the metrics exactly once, when it is recorded.
C24_SubmittedOnceRecordedOnce == [][C24_Step]_vars

\* A call has returned after two chunks, with a job that failed, a job that
\* timed out and a job whose future raised each recorded once.
C24_Witness ==
    /\ pc = "returned"
    /\ Len(pdf_files) > batch_size
    /\ Recorded = Jobs
    /\ \E j \in Jobs : kind[pdf_files[j]] = "throw"
    /\ \E j \in Jobs : kind[pdf_files[j]] = "hang"
    /\ \E j \in Jobs : kind[pdf_files[j]] = "raise"
    /\ Changes(metrics) = Len(pdf_files)

\* C25: between two clears of the cache, calls of create_converter with the
\* same arguments return the same converter, which is constructed once, and
\* calls whose arguments differ return different converters.
C25_OneConverterPerConfiguration ==
    \A x, y \in 1..Len(calls) :
        /\ calls[x].args = calls[y].args => calls[x].returned = calls[y].returned
        /\ (x # y /\ calls[x].args = calls[y].args) => ~(calls[x].made /\ calls[y].made)
        /\ calls[x].args # calls[y].args => calls[x].returned # calls[y].returned

\* C26: a call of create_converter in low-memory mode returns a converter
\* with the downgraded thread count and image scale, whatever the cache holds.
C26_LowMemoryHandleIsDowngraded ==
    \A x \in 1..Len(calls) :
        calls[x].low_mem =>
            /\ calls[x].returned.num_threads = pipeline_threads(calls[x].args.num_threads, TRUE)
            /\ calls[x].returned.images_scale = images_scale(TRUE)

\* C27: the timeout process_with_timeout enforces is at least the configured
\* timeout and at most twice it, for every file size, and is the configured
\* timeout for files of at most 10 MB.
C27_EnforcedTimeoutInRange ==
    pc = "adjusted" =>
        /\ timeout <= adjusted_timeout[1]
        /\ adjusted_timeout[1] <= 2 * timeout
        /\ the_file.size <= 10 * MB => adjusted_timeout[1] = timeout

\* A file above 10 MB got more than the configured timeout and less than
\* twice it.
C27_Witness ==
    /\ pc = "adjusted"
    /\ the_file.size > 10 * MB
    /\ timeout < adjusted_timeout[1]
    /\ adjusted_timeout[1] < 2 * timeout

\* C28: main() exits with 0 on success, with a non-zero code on a validation
\* error or an unhandled error, and on a user interrupt with a code that is
\* neither 0 nor the code of the errors.
C28_ExitCodes ==
    pc = "exited" =>
        /\ "Processing completed successfully" \in printed => exit_code = << 0 >>
        /\ printed \cap {"invalid arguments", "CUDA is not available on this device",
                          "An error occurred"} # {} => exit_code # << 0 >>
        /\ "Process interrupted by user" \in printed
               => (exit_code # << 0 >> /\ exit_code # << error_exit >>)

\* C29: when CUDA is requested and the machine has none, main() warns, goes
\* on with the CPU and does not stop for it; a converter that cannot be
\* constructed ends the run with an error message and a non-zero code.
C29_CudaFallsBackOtherFaultsAbort ==
    /\ ( /\ args.given /\ args.valid
         /\ Upper(args.device) = "CUDA"
         /\ cuda_available = "no"
         /\ (pc # "idle" \/ device # << >>) )
           => /\ device = << "CPU" >>
              /\ "Falling back to CPU processing" \in printed
              /\ "CUDA is not available on this device" \notin printed
    /\ (converter_fault /\ pc = "exited" /\ device # << >>)
           => ("An error occurred" \in printed /\ exit_code # << 0 >>)

\* The number of eligible PDFs: those of the source directory that the skip
\* set read from the output directory does not hold.
Eligible == Cardinality(eligible(source, get_skip_files(outdir)))

\* The set-up of a call, and the return of one.
C30_Step ==
    /\ (pc \in {"idle", "returned"} /\ pc' \in {"submit", "conclude"}) =>
          /\ Len(pdf_files') = (IF amount > 0 THEN Min(amount, Eligible) ELSE Eligible)
          /\ metrics'.total_docs = Len(pdf_files')
    /\ (pc = "conclude" /\ pc' = "returned") =>
          /\ Recorded = Jobs
          /\ metrics'.total_docs = Len(pdf_files)

\* C30: with amount = k > 0 a call enumerates and processes min(k, E) jobs,
\* E being the number of eligible PDFs, and total_docs is that number; with
\* amount 0 it processes all E.
C30_AmountLimitsTheBatch == [][C30_Step]_vars

\* A second call with amount 1 has enumerated one of the two PDFs that are
\* still eligible.
C30_Witness ==
    /\ rerun
    /\ pc = "submit"
    /\ amount = 1
    /\ Len(pdf_files) = 1
    /\ Eligible = 2

\* The size of an enumerated file.
size_of(name) == (CHOOSE f \in source : f.name = name).size

\* After every step the enumerated jobs ascend in size along the chunks and
\* no job is submitted before a smaller one; a set-up keeps the smallest of
\* the eligible files.
C31_Step ==
    /\ \A a, b \in Jobs' :
          size_of(pdf_files'[a]) < size_of(pdf_files'[b]) =>
             /\ (a - 1) \div Max(1, max_workers' * 2) <= (b - 1) \div Max(1, max_workers' * 2)
             /\ jpc'[b] # "unsubmitted" => jpc'[a] # "unsubmitted"
    /\ (pc \in {"idle", "returned"} /\ pc' \in {"submit", "conclude"}) =>
          \A f \in eligible(source, get_skip_files(outdir)) :
              \/ \E j \in Jobs' : pdf_files'[j] = f.name
              \/ \A j \in Jobs' : size_of(pdf_files'[j]) <= f.size

\* C31: jobs are dispatched in ascending order of file size: a smaller file
\* is submitted in the same chunk as a larger one or in an earlier chunk, and
\* with an amount limit k the jobs kept are k smallest eligible files.
C31_AscendingSizeDispatch == [][C31_Step]_vars

\* A call with amount 2 on three eligible files of sizes 30, 10 and 20 has
\* kept the files of sizes 10 and 20, in that order, and submitted them.
C31_Witness ==
    /\ pc = "collect"
    /\ amount = 2
    /\ ~rerun
    /\ Cardinality(eligible(source, {})) = 3
    /\ Len(pdf_files) = 2
    /\ size_of(pdf_files[1]) = 10
    /\ size_of(pdf_files[2]) = 20
    /\ \A j \in Jobs : jpc[j] = "queued"

\* C36: in every state of a batch run the number of entries of
\* metrics['fails'] is failed_docs + timeout_docs, every entry names a file
\* of the batch, and no file has two entries.
C36_FailsMatchCounters ==
    pc \notin {"idle", "sized", "adjusted", "caller_convert"} =>
        /\ Len(metrics.fails) = metrics.failed_docs + metrics.timeout_docs
        /\ \A k \in 1..Len(metrics.fails) :
              \E j \in Jobs : pdf_files[j] = metrics.fails[k].file
        /\ \A k, l \in 1..Len(metrics.fails) :
              metrics.fails[k].file = metrics.fails[l].file => k = l

\* A batch has recorded a failure and a timeout, and a success as well.
C36_Witness ==
    /\ pc = "collect"
    /\ metrics.failed_docs = 1
    /\ metrics.timeout_docs = 1
    /\ Len(metrics.fails) = 2
    /\ metrics.processed_docs - metrics.failed_docs = 1

\* C34: a converter that create_converter builds in low-memory mode has image
\* scale 0.3 and max(2, n div 2) threads when n > 2 threads were requested,
\* n otherwise; one built without low-memory mode has image scale 0.5 and n
\* threads.  The thread count never exceeds n.
C34_DowngradeOfNewConverter ==
    \A k \in 1..Len(calls) :
        LET c == calls[k]
            n == c.args.num_threads
            half == IF n \div 2 < 2 THEN 2 ELSE n \div 2
        IN  c.made =>
              /\ c.low_mem => c.returned.images_scale = 3
              /\ (c.low_mem /\ n > 2) => c.returned.num_threads = half
              /\ (c.low_mem /\ n <= 2) => c.returned.num_threads = n
              /\ ~c.low_mem => (c.returned.images_scale = 5 /\ c.returned.num_threads = n)
              /\ c.returned.num_threads <= n

\* Converters were built in low-memory mode for 1 and for 5 requested threads
\* and without it for 4: with 1, 2 and 4 threads.
C34_Witness ==
    /\ Len(calls) = 3
    /\ \A k \in 1..3 : calls[k].made
    /\ calls[1].low_mem /\ calls[1].args.num_threads = 1 /\ calls[1].returned.num_threads = 1
    /\ calls[2].low_mem /\ calls[2].args.num_threads = 5 /\ calls[2].returned.num_threads = 2
    /\ ~calls[3].low_mem /\ calls[3].args.num_threads = 4 /\ calls[3].returned.num_threads = 4

\* The chunk of a job when chunks hold twice the effective worker count.
chunk_of(j) == (j - 1) \div (2 * max_workers)

\* A step that submits a job submits it with the whole of its chunk, after
\* every job of the chunks before it was recorded, and after the
\* reclamation and pause when the chunk is not the first and memory use is
\* above 75% at its start.
C32_Step ==
    \A j \in Jobs :
        (/\ pdf_files' = pdf_files
         /\ jpc[j] = "unsubmitted"
         /\ jpc'[j] # "unsubmitted") =>
            /\ \A k \in Jobs : chunk_of(k) < chunk_of(j) => jpc[k] = "recorded"
            /\ \A k \in Jobs : chunk_of(k) = chunk_of(j) =>
                   (jpc[k] = "unsubmitted" /\ jpc'[k] = "queued")
            /\ \A k \in Jobs : chunk_of(k) > chunk_of(j) => jpc'[k] = "unsubmitted"
            /\ (chunk_of(j) > 0 /\ (chunk_of(j) * 2 * max_workers) \in pressure) =>
                   (chunk_of(j) * 2 * max_workers) \in paused'

\* C32: jobs are dispatched in chunks of twice the effective worker count;
\* no job of a chunk is submitted before every job of the chunk before it has
\* completed and been recorded, and a memory reclamation and pause precede
\* every chunk after the first that finds memory use above 75%.
C32_ChunksBarrierAndPause == [][C32_Step]_vars

\* The second chunk of a batch of three files was submitted after the pause,
\* with both jobs of the first chunk recorded.
C32_Witness ==
    /\ pc = "collect"
    /\ max_workers = 1
    /\ i = 2
    /\ 2 \in pressure
    /\ 2 \in paused
    /\ Len(pdf_files) = 3
    /\ jpc[1] = "recorded" /\ jpc[2] = "recorded" /\ jpc[3] = "queued"

\* The jobs whose child finds memory use above 90% when it starts.
Starved == { j \in Jobs : kind[pdf_files[j]] = "nomemory" }

\* The child of a starved job exits with the failure and its error text on
\* the queue and without a file written; the future of the job holds False;
\* no call raises, and a call that returns has recorded every job, the
\* files that convert as successes and every starved job once in fails.
C33_Step ==
    /\ \A j \in Starved :
          (pdf_files' = pdf_files /\ child[j] = "running" /\ child'[j] = "exited") =>
             /\ queue'[j] = "Insufficient memory"
             /\ outdir' = outdir
             /\ completed' = completed
    /\ \A j \in Starved' :
          /\ jpc'[j] \in {"done", "recorded"} => future'[j] = "False"
          /\ pdf_files'[j] \notin completed'
    /\ pc' # "raised"
    /\ pc' = "returned" =>
          /\ \A j \in Jobs' : jpc'[j] = "recorded"
          /\ \A j \in Jobs' : kind[pdf_files'[j]] = "ok" =>
                /\ future'[j] = "True"
                /\ \A k \in 1..Len(metrics'.fails) : metrics'.fails[k].file # pdf_files'[j]
          /\ \A j \in Starved' :
                Cardinality({ k \in 1..Len(metrics'.fails) :
                                metrics'.fails[k].file = pdf_files'[j] }) = 1

\* C33: a job whose isolated worker finds memory use above 90% as it starts
\* fails alone: the worker puts a failure with an error text on the queue
\* and does not run the conversion, and the batch goes on with the other
\* jobs.
C33_StarvedJobFailsAlone == [][C33_Step]_vars

\* A batch of three files has returned: the child of the second one found no
\* memory, the two others were converted.
C33_Witness ==
    /\ pc = "returned"
    /\ Len(pdf_files) = 3
    /\ Starved = {2}
    /\ completed = { pdf_files[1], pdf_files[3] }
    /\ metrics.failed_docs = 1
    /\ metrics.processed_docs = 3

\* C35: a call of process_pdf that returns True with the markdown flag set
\* has written the JSON and the markdown, in every memory mode.
C35_SuccessWroteJsonAndMarkdown ==
    pdf # << >> =>
        ((pdf[1].out.returned /\ pdf[1].call.markdown) =>
            (pdf[1].out.json /\ pdf[1].out.md))

\* C38: process_pdf returns False without running a converter and without
\* writing the JSON for a file of more than 50 MB that is over the threshold
\* min(100 MB, available memory / 10); a file over the threshold of at most
\* 50 MB, and one whose size check raised, is not stopped by the size check:
\* the call goes on as it does for a file under the threshold, and converts
\* the file and writes the JSON when the file opens and is not over the page
\* limit of low-memory mode.
C38_OnlyLargeUnsafeFilesRefused ==
    pdf # << >> =>
        LET c == pdf[1].call
            o == pdf[1].out
            low == pdf[1].low_memory_mode
            over == c.size > 100 * MB \/ c.size * 10 > c.available
        IN  /\ (c.readable /\ over /\ c.size > 50 * MB) =>
                  (~o.returned /\ o.converter = "none" /\ ~o.json /\ o.stopped = "size")
            /\ ((c.readable /\ over /\ c.size <= 50 * MB) \/ ~c.readable) =>
                  /\ o.stopped # "size"
                  /\ o = process_pdf_result([c EXCEPT !.size = MB, !.readable = TRUE], low)
                  /\ (c.opens /\ ~(low /\ c.pages > 300)) =>
                        (o.returned /\ o.converter # "none" /\ o.json)

\* A file of 30 MB with 200 MB of memory available, over the threshold of
\* 20 MB, was converted and its JSON written.
C38_Witness ==
    /\ pdf # << >>
    /\ pdf[1].call.size = 30 * MB
    /\ pdf[1].call.available = 200 * MB
    /\ pdf[1].call.readable
    /\ pdf[1].out.returned
    /\ pdf[1].out.converter = "doc_converter"
    /\ pdf[1].out.json

\* A call of process_batch that finds LOW_MEMORY=1, memory use above 80% or
\* less than 4 GB available leaves LOW_MEMORY set; no step unsets it; and
\* with LOW_MEMORY set, a call of process_batch sizes its pool in low-memory
\* mode, a call of create_converter has low_mem true and a call of
\* process_pdf has low_memory_mode true, whatever the memory use is then.
C37_Step ==
    /\ (sampled' # sampled /\ (sampled'[1].low \/ sampled'[1].gb < 4)) => LOW_MEMORY'
    /\ LOW_MEMORY => LOW_MEMORY'
    /\ (LOW_MEMORY /\ sampled' # sampled) =>
          /\ max_workers' = effective_workers(requested, sampled'[1].gb, TRUE)
          /\ warned' = warns(requested, sampled'[1].gb, TRUE)
    /\ (LOW_MEMORY /\ Len(calls') > Len(calls)) => calls'[Len(calls')].low_mem
    /\ (LOW_MEMORY /\ pdf' # pdf) => pdf'[1].low_memory_mode

\* C37: low-memory mode is sticky within a process: a process_batch call
\* that detects memory pressure sets LOW_MEMORY=1, nothing resets it, and
\* every later call of create_converter, process_pdf and process_batch runs
\* in low-memory mode, also when memory pressure has gone.
C37_LowMemoryIsSticky == [][C37_Step]_vars

\* After a process_batch call set LOW_MEMORY, process_pdf ran in low-memory
\* mode with memory use at 70% or less and create_converter built a converter
\* in low-memory mode; the last process_batch call, with 16 workers requested
\* and 9 GB available, sized its pool at 8.
C37_Witness ==
    /\ LOW_MEMORY
    /\ pdf # << >>
    /\ ~pdf[1].call.high
    /\ pdf[1].low_memory_mode
    /\ calls # << >>
    /\ calls[Len(calls)].low_mem
    /\ calls[Len(calls)].made
    /\ pc = "sized"
    /\ sampled[1].gb = 9
    /\ max_workers = 8

====
